---- MODULE Spec2Model ----
(***************************************************************************)
(* Case lifecycle core of the law-firm portal: the identifier allocator    *)
(* (createClient, createCase, national_id_registry) and the event-sourced  *)
(* status projector (Case_Events, syncCaseStatus) of SingleStoreStorage,   *)
(* as driven by the admin routes.  Every request handler is a process that *)
(* advances one awaited SQL statement at a time, so that handlers          *)
(* interleave exactly where the code awaits the connection pool.           *)
(* The operations of the IStorage interface are also modelled as they are  *)
(* when called directly, for SingleStoreStorage and for MemStorage, the     *)
(* in-memory implementation whose methods run without awaiting I/O.        *)
(***************************************************************************)
EXTENDS Integers, FiniteSets, Sequences, TLC

(* ------------------------------ bounds -------------------------------- *)
\* number of client identifiers generateClientId can draw (1000 .. 1000+n-1)
NumClientIds == 2
\* number of case identifiers generateCaseId can draw (1000000 .. )
NumCaseIds == 1
\* number of Case_Events rows ever inserted
MaxEvents == 2
\* largest value of the database clock (CURRENT_TIMESTAMP, in seconds)
MaxClock == 2
\* number of requests served when two handlers allocate identifiers
MaxAllocRequests == 5
\* number of requests served when one handler works alone
MaxSoloRequests == 5
\* number of requests served when case creations race with status requests
MaxRaceRequests == 4
\* number of event-log requests served on the cases that already exist
MaxLogRequests == 3
\* number of calls of storage operations made by one caller
MaxCallRequests == 4
\* number of calls made when bulk re-projections can fail
MaxBatchRequests == 4
\* number of event-log calls made on the cases that already exist
MaxEditRequests == 3
\* number of pages requested from one event log
MaxPageRequests == 2
\* number of client creations requested when only clients are created
MaxRegistryRequests == 3
\* number of creations requested by one caller of either storage
MaxIdRequests == 4
\* number of createCaseEvent requests served by two handlers at once
MaxOverlapRequests == 2
\* number of event-log calls made when re-projections can fail
MaxFailRequests == 3

(* ------------------------- program constants -------------------------- *)
MinClientId == 1000
MinCaseId == 1000000
TestNationalId == "2222222222"
DefaultStatus == "pending"

(* --------------------------- input domains ---------------------------- *)
Procs == {"h1", "h2"}
ClientIds == MinClientId .. (MinClientId + NumClientIds - 1)
CaseIds == MinCaseId .. (MinCaseId + NumCaseIds - 1)
NationalIds == {TestNationalId, "1111111111"}
EventTypes == {"lawyer-study", "in-progress"}
InitialStatuses == {"under-review", "in-progress"}
DetailTexts == {"x"}
EventIds == 1 .. MaxEvents
Times == 1 .. MaxClock
\* the SQL NULL of an absent details text
NULL == "NULL"
\* no identifier (undefined)
NoId == 0

VARIABLES
    clients,      \* committed rows of table clients           (PRIMARY KEY client_id)
    registry,     \* committed rows of national_id_registry    (PRIMARY KEY national_id)
    cases,        \* rows of table cases            (PRIMARY KEY (client_id, case_id))
    events,       \* rows of table Case_Events                 (PRIMARY KEY id)
    txn,          \* txn[p]: rows written inside p's open transaction, not yet committed
    now,          \* the database clock
    nextEventId,  \* the next fresh Case_Events id (generateUUID: 122 random bits, taken as fresh)
    quota,        \* number of requests that can still be started
    pc,           \* pc[p]: the statement handler p executes next
    loc,          \* loc[p]: the local variables of handler p
    res,          \* the response sent by the last step, NoRes when it sent none
    projected,    \* projected[k]: the status the last re-projection of case k wrote,
                  \* "" once the log of k has been mutated since
    storage,      \* the IStorage implementation constructed at start-up
    mem           \* the maps and counters of MemStorage

vars == <<clients, registry, cases, events, txn, now, nextEventId, quota, pc, loc, res,
          projected, storage, mem>>

Idle == [op |-> "none", nat |-> "", cid |-> NoId, kid |-> NoId, eid |-> NoId,
         typ |-> "", det |-> "", patch |-> "", ecase |-> NoId, found |-> FALSE,
         skid |-> NoId, scid |-> NoId, styp |-> "", todo |-> {}, custom |-> FALSE,
         total |-> 0, failed |-> {}]

\* the requests that write cases.last_case_status of existing cases
StatusOps == {"createCaseEvent", "updateCaseEvent", "deleteCaseEvent",
              "syncAllCaseStatuses", "updateCaseStatus"}

InStatusOp(q) == loc[q].op \in StatusOps

NoTxn == [reg |-> {}, cli |-> {}]

NoRes == [op |-> "none", out |-> "none", id |-> NoId, kid |-> NoId, nat |-> "", typ |-> "",
          generated |-> FALSE, completed |-> 0, errors |-> {}, list |-> <<>>,
     page |-> 0, limit |-> 0, hasMore |-> FALSE]

\* a response: the request, its outcome, the identifier it is about (client or
\* event), the case it is about, the national id and the status it carried;
\* for a bulk re-projection the number of cases its completion line names and
\* the cases its error lines name; for a listing the events returned
Result(o, out, id, kid, nat, typ) ==
    [op |-> o, out |-> out, id |-> id, kid |-> kid, nat |-> nat, typ |-> typ,
     generated |-> FALSE, completed |-> 0, errors |-> {}, list |-> <<>>,
     page |-> 0, limit |-> 0, hasMore |-> FALSE]

\* new MemStorage(): empty maps, nextClientId = 1000, nextCaseId = 1000000
MemStorage == [clients |-> {}, cases |-> {}, caseEvents |-> <<>>,
               nextClientId |-> MinClientId, nextCaseId |-> MinCaseId]

Init ==
    /\ clients = {}
    /\ registry = {}
    /\ cases = {}
    /\ events = {}
    /\ txn = [p \in Procs |-> NoTxn]
    /\ now = 1
    /\ nextEventId = 1
    /\ quota = MaxAllocRequests
    /\ pc = [p \in Procs |-> "idle"]
    /\ loc = [p \in Procs |-> Idle]
    /\ res = NoRes
    /\ projected = [k \in CaseIds |-> ""]
    /\ storage = "SingleStoreStorage"
    /\ mem = MemStorage

\* a handler picks up a request
Begin(p, label, locals) ==
    /\ pc[p] = "idle"
    /\ quota > 0
    /\ quota' = quota - 1
    /\ pc' = [pc EXCEPT ![p] = label]
    /\ loc' = [loc EXCEPT ![p] = locals]
    /\ res' = NoRes
    /\ storage = "SingleStoreStorage"
    /\ UNCHANGED <<storage, mem>>

\* a handler advances to its next statement
Goto(p, label, locals) ==
    /\ pc' = [pc EXCEPT ![p] = label]
    /\ loc' = [loc EXCEPT ![p] = locals]
    /\ res' = NoRes
    /\ UNCHANGED <<quota, storage, mem>>

\* a handler sends its response
Finish(p, result) ==
    /\ pc' = [pc EXCEPT ![p] = "idle"]
    /\ loc' = [loc EXCEPT ![p] = Idle]
    /\ res' = result
    /\ UNCHANGED <<quota, storage, mem>>

\* a request that is answered after its first statement
Reply(p, result) ==
    /\ pc[p] = "idle"
    /\ quota > 0
    /\ quota' = quota - 1
    /\ res' = result
    /\ storage = "SingleStoreStorage"
    /\ UNCHANGED <<pc, loc, storage, mem>>

(* ---------------------- identifier allocator -------------------------- *)

\* SELECT COUNT(*) FROM clients WHERE client_id = ?   (pool connection: committed rows)
isClientIdUnique(id) == Cardinality({c \in clients : c.client_id = id}) = 0

\* SELECT COUNT(*) FROM cases WHERE case_id = ?
isCaseIdUnique(id) == Cardinality({c \in cases : c.case_id = id}) = 0

\* a row with this primary key is written by another open transaction:
\* the insert waits for that transaction to end
RegistryLocked(p, nat) ==
    \E q \in Procs \ {p} : \E r \in txn[q].reg : r.national_id = nat

ClientLocked(p, id) ==
    \E q \in Procs \ {p} : \E c \in txn[q].cli : c.client_id = id

\* POST /api/admin/clients -> storage.createClient: beginTransaction
createClientBegin(p) ==
    \E nat \in NationalIds :
        /\ Begin(p, "cc_alloc", [Idle EXCEPT !.op = "createClient", !.nat = nat])
        /\ UNCHANGED <<clients, registry, cases, events, txn, now, nextEventId, projected>>

\* do { clientId = generateClientId() } while (!(await isClientIdUnique(clientId)))
createClientAlloc(p) ==
    /\ pc[p] = "cc_alloc"
    /\ \E id \in ClientIds :
          IF isClientIdUnique(id)
          THEN Goto(p, "cc_registry", [loc[p] EXCEPT !.cid = id])
          ELSE Goto(p, "cc_alloc", loc[p])
    /\ UNCHANGED <<clients, registry, cases, events, txn, now, nextEventId, projected>>

\* INSERT INTO national_id_registry (national_id, client_id), inside the transaction
createClientRegistry(p) ==
    /\ pc[p] = "cc_registry"
    /\ ~RegistryLocked(p, loc[p].nat)
    /\ IF \E r \in registry : r.national_id = loc[p].nat
       THEN \* duplicate primary key: catch -> rollback -> throw
            /\ txn' = [txn EXCEPT ![p] = NoTxn]
            /\ Finish(p, Result("createClient", "DuplicateNationalId", NoId, NoId, loc[p].nat, ""))
       ELSE /\ txn' = [txn EXCEPT ![p].reg =
                         @ \cup {[national_id |-> loc[p].nat, client_id |-> loc[p].cid]}]
            /\ Goto(p, "cc_client", loc[p])
    /\ UNCHANGED <<clients, registry, cases, events, now, nextEventId, projected>>

\* INSERT INTO clients (client_id, ..., national_id, ...), inside the transaction
createClientInsert(p) ==
    /\ pc[p] = "cc_client"
    /\ ~ClientLocked(p, loc[p].cid)
    /\ IF \E c \in clients : c.client_id = loc[p].cid
       THEN \* duplicate primary key: catch -> rollback -> throw
            /\ txn' = [txn EXCEPT ![p] = NoTxn]
            /\ Finish(p, Result("createClient", "DuplicateClientId", NoId, NoId, loc[p].nat, ""))
       ELSE /\ txn' = [txn EXCEPT ![p].cli =
                         @ \cup {[client_id |-> loc[p].cid, national_id |-> loc[p].nat]}]
            /\ Goto(p, "cc_commit", loc[p])
    /\ UNCHANGED <<clients, registry, cases, events, now, nextEventId, projected>>

\* connection.commit(); return the new client
createClientCommit(p) ==
    /\ pc[p] = "cc_commit"
    /\ registry' = registry \cup txn[p].reg
    /\ clients' = clients \cup txn[p].cli
    /\ txn' = [txn EXCEPT ![p] = NoTxn]
    /\ Finish(p, Result("createClient", "ok", loc[p].cid, NoId, loc[p].nat, ""))
    /\ UNCHANGED <<cases, events, now, nextEventId, projected>>

\* POST /api/admin/create-test-client: INSERT INTO clients, no transaction, no uniqueness check
createTestClientInsert(p) ==
    \E id \in ClientIds :
        /\ ~ClientLocked(p, id)
        /\ IF \E c \in clients : c.client_id = id
           THEN \* duplicate primary key: the catch block answers { success: false }
                /\ Reply(p, Result("createTestClient", "DuplicateClientId", NoId, NoId, TestNationalId, ""))
                /\ UNCHANGED clients
           ELSE /\ Begin(p, "tc_registry",
                        [Idle EXCEPT !.op = "createTestClient", !.cid = id, !.nat = TestNationalId])
                /\ clients' = clients \cup {[client_id |-> id, national_id |-> TestNationalId]}
        /\ UNCHANGED <<registry, cases, events, txn, now, nextEventId, projected>>

\* the same statement on a registry without its PRIMARY KEY (national_id)
createTestClientRegistryUnkeyed(p) ==
    /\ pc[p] = "tc_registry"
    /\ registry' = registry \cup {[national_id |-> loc[p].nat, client_id |-> loc[p].cid]}
    /\ Finish(p, Result("createTestClient", "ok", loc[p].cid, NoId, loc[p].nat, ""))
    /\ UNCHANGED <<clients, cases, events, txn, now, nextEventId, projected>>

\* INSERT INTO national_id_registry (national_id, client_id), autocommit
createTestClientRegistry(p) ==
    /\ pc[p] = "tc_registry"
    /\ ~RegistryLocked(p, loc[p].nat)
    /\ IF \E r \in registry : r.national_id = loc[p].nat
       THEN /\ UNCHANGED registry
            /\ Finish(p, Result("createTestClient", "DuplicateNationalId", NoId, NoId, loc[p].nat, ""))
       ELSE /\ registry' = registry \cup {[national_id |-> loc[p].nat, client_id |-> loc[p].cid]}
            /\ Finish(p, Result("createTestClient", "ok", loc[p].cid, NoId, loc[p].nat, ""))
    /\ UNCHANGED <<clients, cases, events, txn, now, nextEventId, projected>>

\* POST /api/admin/cases: getClient(clientId), then storage.createCase
createCaseBegin(p) ==
    \E cid \in ClientIds, st \in InitialStatuses, custom \in CaseIds \cup {NoId} :
        /\ IF \A c \in clients : c.client_id # cid
           THEN Reply(p, Result("createCase", "ClientNotFound", NoId, NoId, "", ""))
           ELSE Begin(p, IF custom = NoId THEN "kc_auto" ELSE "kc_custom",
                      [Idle EXCEPT !.op = "createCase", !.cid = cid, !.typ = st, !.kid = custom,
                                   !.custom = (custom # NoId)])
        /\ UNCHANGED <<clients, registry, cases, events, txn, now, nextEventId, projected>>

\* if (await this.isCaseIdUnique(customCaseId.trim())) ... else throw 'already used'
createCaseCustom(p) ==
    /\ pc[p] = "kc_custom"
    /\ IF isCaseIdUnique(loc[p].kid)
       THEN Goto(p, "kc_insert", loc[p])
       ELSE Finish(p, Result("createCase", "CaseIdInUse", loc[p].cid, loc[p].kid, "", ""))
    /\ UNCHANGED <<clients, registry, cases, events, txn, now, nextEventId, projected>>

\* do { caseId = generateCaseId() } while (!(await isCaseIdUnique(caseId)))
createCaseAuto(p) ==
    /\ pc[p] = "kc_auto"
    /\ \E id \in CaseIds :
          IF isCaseIdUnique(id)
          THEN Goto(p, "kc_insert", [loc[p] EXCEPT !.kid = id])
          ELSE Goto(p, "kc_auto", loc[p])
    /\ UNCHANGED <<clients, registry, cases, events, txn, now, nextEventId, projected>>

\* INSERT INTO cases (case_id, client_id, case_creation_date, last_case_status)
createCaseInsert(p) ==
    /\ pc[p] = "kc_insert"
    /\ IF \E c \in cases : c.client_id = loc[p].cid /\ c.case_id = loc[p].kid
       THEN /\ UNCHANGED cases
            /\ Finish(p, Result("createCase", "DuplicateCaseKey", loc[p].cid, loc[p].kid, "", ""))
       ELSE /\ cases' = cases \cup {[client_id |-> loc[p].cid, case_id |-> loc[p].kid,
                                     last_case_status |-> loc[p].typ]}
            /\ Finish(p, [Result("createCase", "ok", loc[p].cid, loc[p].kid, "", loc[p].typ)
                           EXCEPT !.generated = ~loc[p].custom])
    /\ UNCHANGED <<clients, registry, events, txn, now, nextEventId, projected>>

(* ----------------------------- event log ------------------------------ *)

\* SELECT * FROM cases WHERE case_id = ?  -> rows[0] || undefined
getCase(kid) == {c \in cases : c.case_id = kid}

\* the rows of Case_Events of one case
CaseEventsOf(kid) == {e \in events : e.case_id = kid}

\* ... ORDER BY occurred_at DESC LIMIT 1: the rows that can come first
\* (the order among rows of equal occurred_at is left to the database)
Latest(rows) == {e \in rows : \A f \in rows : f.occurred_at <= e.occurred_at}

\* SELECT * FROM Case_Events WHERE case_id = ? ORDER BY occurred_at DESC,
\* every order the database can return
RECURSIVE getCaseEvents(_)
getCaseEvents(rows) ==
    IF rows = {} THEN {<<>>}
    ELSE UNION {{<<e>> \o rest : rest \in getCaseEvents(rows \ {e})} : e \in Latest(rows)}

\* the selection with the order reversed (ORDER BY ce.occurred_at ASC LIMIT 1)
FirstByOccurredAtAsc(joined) ==
    {r \in joined : \A o \in joined : r[1].occurred_at <= o[1].occurred_at}

\* ORDER BY ce.occurred_at DESC LIMIT 1 over the joined rows <<event, case>>
FirstByOccurredAt(joined) ==
    {r \in joined : \A o \in joined : o[1].occurred_at <= r[1].occurred_at}

\* the requests in flight that will insert a Case_Events row
PendingInserts == Cardinality({q \in Procs : pc[q] = "ce_insert"})

\* the statement that follows syncCaseStatus in the request of handler p, whose
\* local variables are l; the response carries the cases named by the error and
\* warning lines syncCaseStatus logged during the request
SyncReturn(p, l) ==
    CASE l.op = "createCaseEvent" ->
            \* return { id: event.id, ... }: a TypeError when the row was not found
            Finish(p, [Result("createCaseEvent", IF l.found THEN "ok" ELSE "TypeError",
                              l.eid, l.skid, "", l.typ) EXCEPT !.errors = l.failed])
      [] l.op = "updateCaseEvent" ->
            Finish(p, [Result("updateCaseEvent", "ok", l.eid, l.skid, "", l.patch)
                          EXCEPT !.errors = l.failed])
      [] l.op = "deleteCaseEvent" ->
            Finish(p, [Result("deleteCaseEvent", "ok", l.eid, l.skid, "", "")
                          EXCEPT !.errors = l.failed])
      [] OTHER ->
            \* syncAllCaseStatuses: for (const caseData of cases); at the end
            \* console.log(`Completed bulk sync for ${cases.length} cases`); the
            \* failures were logged one by one and are not counted
            IF l.todo = {}
            THEN Finish(p, [Result("syncAllCaseStatuses", "ok", NoId, NoId, "", "")
                              EXCEPT !.completed = l.total, !.errors = l.failed])
            ELSE \E r \in l.todo :
                    Goto(p, "sy_read", [l EXCEPT !.skid = r.case_id, !.todo = @ \ {r},
                                                 !.scid = NoId, !.styp = ""])

SyncDone(p) == SyncReturn(p, loc[p])

\* syncCaseStatus: SELECT ce.event_type, c.client_id FROM Case_Events ce
\* INNER JOIN cases c ON ce.case_id = c.case_id WHERE ce.case_id = ?
\* ORDER BY ce.occurred_at DESC LIMIT 1
syncCaseStatusRead(p) ==
    /\ pc[p] = "sy_read"
    /\ LET joined == {<<e, c>> \in CaseEventsOf(loc[p].skid) \X cases :
                          c.case_id = e.case_id}
       IN IF joined # {}
          THEN \E r \in FirstByOccurredAt(joined) :
                  Goto(p, "sy_write", [loc[p] EXCEPT !.styp = r[1].event_type,
                                                     !.scid = r[2].client_id])
          ELSE Goto(p, "sy_case", loc[p])
    /\ UNCHANGED <<clients, registry, cases, events, txn, now, nextEventId, projected>>

\* syncCaseStatus, no events: SELECT client_id FROM cases WHERE case_id = ?
syncCaseStatusCase(p) ==
    /\ pc[p] = "sy_case"
    /\ IF getCase(loc[p].skid) # {}
       THEN \E c \in getCase(loc[p].skid) :
               Goto(p, "sy_write", [loc[p] EXCEPT !.styp = DefaultStatus,
                                                  !.scid = c.client_id])
       ELSE SyncDone(p)
    /\ UNCHANGED <<clients, registry, cases, events, txn, now, nextEventId, projected>>

\* UPDATE cases SET last_case_status = ? WHERE client_id = ? AND case_id = ?
SetStatus(rows, cid, kid, st) ==
    {IF c.client_id = cid /\ c.case_id = kid THEN [c EXCEPT !.last_case_status = st] ELSE c
        : c \in rows}

\* the UPDATE with the selection of the latest event inside it, one statement:
\* UPDATE cases SET last_case_status = (SELECT ... ORDER BY occurred_at DESC LIMIT 1)
syncCaseStatusWriteLatest(p) ==
    /\ pc[p] = "sy_write"
    /\ \E st \in (IF CaseEventsOf(loc[p].skid) = {} THEN {DefaultStatus}
                   ELSE {e.event_type : e \in Latest(CaseEventsOf(loc[p].skid))}) :
          /\ cases' = SetStatus(cases, loc[p].scid, loc[p].skid, st)
          /\ projected' = [projected EXCEPT ![loc[p].skid] = st]
    /\ SyncDone(p)
    /\ UNCHANGED <<clients, registry, events, txn, now, nextEventId>>

syncCaseStatusWrite(p) ==
    /\ pc[p] = "sy_write"
    /\ cases' = SetStatus(cases, loc[p].scid, loc[p].skid, loc[p].styp)
    /\ projected' = [projected EXCEPT ![loc[p].skid] = loc[p].styp]
    /\ SyncDone(p)
    /\ UNCHANGED <<clients, registry, events, txn, now, nextEventId>>

\* syncCaseStatus: a statement of the try block rejects (the connection is lost,
\* the statement times out); catch (error) { console.error(...) } and the
\* caller goes on.  loc.failed holds the cases whose re-projection ended this way.
\* the catch block without its console.error and console.warn lines
syncCaseStatusFailSilent(p) ==
    /\ pc[p] \in {"sy_read", "sy_case", "sy_write"}
    /\ SyncReturn(p, loc[p])
    /\ UNCHANGED <<clients, registry, cases, events, txn, now, nextEventId, projected>>

syncCaseStatusFail(p) ==
    /\ pc[p] \in {"sy_read", "sy_case", "sy_write"}
    /\ SyncReturn(p, [loc[p] EXCEPT !.failed = @ \cup {loc[p].skid}])
    /\ UNCHANGED <<clients, registry, cases, events, txn, now, nextEventId, projected>>

\* POST /api/cases/:caseId/events: getCase(caseId), then storage.createCaseEvent
createCaseEventBegin(p) ==
    \E kid \in CaseIds, typ \in EventTypes :
        /\ IF getCase(kid) = {}
           THEN Reply(p, Result("createCaseEvent", "CaseNotFound", NoId, kid, "", ""))
           ELSE /\ nextEventId + PendingInserts <= MaxEvents
                /\ Begin(p, "ce_insert",
                         [Idle EXCEPT !.op = "createCaseEvent", !.kid = kid, !.typ = typ,
                                      !.det = NULL])
        /\ UNCHANGED <<clients, registry, cases, events, txn, now, nextEventId, projected>>

\* INSERT INTO Case_Events (id, case_id, event_type, details): occurred_at defaults
\* to CURRENT_TIMESTAMP
createCaseEventInsert(p) ==
    /\ pc[p] = "ce_insert"
    /\ events' = events \cup {[id |-> nextEventId, case_id |-> loc[p].kid,
                               event_type |-> loc[p].typ, occurred_at |-> now,
                               details |-> loc[p].det]}
    /\ nextEventId' = nextEventId + 1
    /\ Goto(p, "ce_select", [loc[p] EXCEPT !.eid = nextEventId])
    /\ projected' = [projected EXCEPT ![loc[p].kid] = ""]
    /\ UNCHANGED <<clients, registry, cases, txn, now>>

\* SELECT * FROM Case_Events WHERE id = ?; then syncCaseStatus(caseEvent.caseId)
createCaseEventSelect(p) ==
    /\ pc[p] = "ce_select"
    /\ Goto(p, "sy_read", [loc[p] EXCEPT !.found = (\E e \in events : e.id = loc[p].eid),
                                         !.skid = loc[p].kid])
    /\ UNCHANGED <<clients, registry, cases, events, txn, now, nextEventId, projected>>

\* PUT /api/admin/cases/:caseId/events/:eventId: getCase(caseId), the patch is
\* validated, then storage.updateCaseEvent
updateCaseEventBegin(p) ==
    \E kid \in CaseIds, eid \in EventIds, patch \in {"none", "eventType", "details", "both"},
       typ \in EventTypes, det \in DetailTexts :
        /\ patch \in {"none", "details"} => typ = CHOOSE t \in EventTypes : TRUE
        /\ IF getCase(kid) = {}
           THEN Reply(p, Result("updateCaseEvent", "CaseNotFound", eid, kid, "", ""))
           ELSE IF patch = "none"
           THEN Reply(p, Result("updateCaseEvent", "InvalidArgument", eid, kid, "", ""))
           ELSE Begin(p, "ue_select",
                      [Idle EXCEPT !.op = "updateCaseEvent", !.kid = kid, !.eid = eid,
                                   !.patch = patch, !.typ = typ, !.det = det])
        /\ UNCHANGED <<clients, registry, cases, events, txn, now, nextEventId, projected>>

\* SELECT case_id FROM Case_Events WHERE id = ?
EventCase(eid) == IF \E e \in events : e.id = eid
                  THEN (CHOOSE e \in events : e.id = eid).case_id
                  ELSE NoId

\* ... if (updateFields.length === 0) throw new Error('No fields to update')
updateCaseEventSelect(p) ==
    /\ pc[p] = "ue_select"
    /\ IF loc[p].patch = "none"
       THEN Finish(p, Result("updateCaseEvent", "NoFieldsToUpdate", loc[p].eid, NoId, "", ""))
       ELSE Goto(p, "ue_update", [loc[p] EXCEPT !.ecase = EventCase(loc[p].eid)])
    /\ UNCHANGED <<clients, registry, cases, events, txn, now, nextEventId, projected>>

\* UPDATE Case_Events SET event_type = ?, details = ? WHERE id = ?  (the supplied fields)
Amend(e, patch, typ, det) ==
    [e EXCEPT !.event_type = IF patch \in {"eventType", "both"} THEN typ ELSE @,
              !.details = IF patch \in {"details", "both"} THEN det ELSE @]

updateCaseEventUpdate(p) ==
    /\ pc[p] = "ue_update"
    /\ events' = {IF e.id = loc[p].eid THEN Amend(e, loc[p].patch, loc[p].typ, loc[p].det)
                  ELSE e : e \in events}
    /\ projected' = [k \in CaseIds |-> IF k = EventCase(loc[p].eid) THEN "" ELSE projected[k]]
    /\ Goto(p, "ue_get", loc[p])
    /\ UNCHANGED <<clients, registry, cases, txn, now, nextEventId>>

\* the statement without its check: an absent row is returned like a found one
updateCaseEventGetUnchecked(p) ==
    /\ pc[p] = "ue_get"
    /\ IF loc[p].ecase = NoId
       THEN Finish(p, Result("updateCaseEvent", "ok", loc[p].eid, NoId, "", loc[p].patch))
       ELSE Goto(p, "sy_read", [loc[p] EXCEPT !.skid = loc[p].ecase])
    /\ UNCHANGED <<clients, registry, cases, events, txn, now, nextEventId, projected>>

\* SELECT * FROM Case_Events WHERE id = ?; if (!event) return null;
\* if (caseId) await this.syncCaseStatus(caseId)
updateCaseEventGet(p) ==
    /\ pc[p] = "ue_get"
    /\ IF \A e \in events : e.id # loc[p].eid
       THEN Finish(p, Result("updateCaseEvent", "EventNotFound", loc[p].eid, NoId, "", ""))
       ELSE IF loc[p].ecase = NoId
       THEN Finish(p, Result("updateCaseEvent", "ok", loc[p].eid, NoId, "", loc[p].patch))
       ELSE Goto(p, "sy_read", [loc[p] EXCEPT !.skid = loc[p].ecase])
    /\ UNCHANGED <<clients, registry, cases, events, txn, now, nextEventId, projected>>

\* DELETE /api/admin/cases/:caseId/events/:eventId: getCase(caseId), then
\* storage.deleteCaseEvent
deleteCaseEventBegin(p) ==
    \E kid \in CaseIds, eid \in EventIds :
        /\ IF getCase(kid) = {}
           THEN Reply(p, Result("deleteCaseEvent", "CaseNotFound", eid, kid, "", ""))
           ELSE Begin(p, "de_select",
                      [Idle EXCEPT !.op = "deleteCaseEvent", !.kid = kid, !.eid = eid])
        /\ UNCHANGED <<clients, registry, cases, events, txn, now, nextEventId, projected>>

\* SELECT case_id FROM Case_Events WHERE id = ?
deleteCaseEventSelect(p) ==
    /\ pc[p] = "de_select"
    /\ Goto(p, "de_delete", [loc[p] EXCEPT !.ecase = EventCase(loc[p].eid)])
    /\ UNCHANGED <<clients, registry, cases, events, txn, now, nextEventId, projected>>

\* the statement with the whole log of the case deleted (WHERE case_id = ?)
deleteCaseEventDeleteLog(p) ==
    /\ pc[p] = "de_delete"
    /\ events' = {e \in events : e.id # loc[p].eid /\ e.case_id # loc[p].ecase}
    /\ IF \A e \in events : e.id # loc[p].eid
       THEN Finish(p, Result("deleteCaseEvent", "EventNotFound", loc[p].eid, NoId, "", ""))
       ELSE IF loc[p].ecase = NoId
       THEN Finish(p, Result("deleteCaseEvent", "ok", loc[p].eid, NoId, "", ""))
       ELSE Goto(p, "sy_read", [loc[p] EXCEPT !.skid = loc[p].ecase])
    /\ projected' = [k \in CaseIds |-> IF k = EventCase(loc[p].eid) THEN "" ELSE projected[k]]
    /\ UNCHANGED <<clients, registry, cases, txn, now, nextEventId>>

\* DELETE FROM Case_Events WHERE id = ?; deleted = affectedRows > 0;
\* if (deleted && caseId) await this.syncCaseStatus(caseId)
deleteCaseEventDelete(p) ==
    /\ pc[p] = "de_delete"
    /\ events' = {e \in events : e.id # loc[p].eid}
    /\ IF \A e \in events : e.id # loc[p].eid
       THEN Finish(p, Result("deleteCaseEvent", "EventNotFound", loc[p].eid, NoId, "", ""))
       ELSE IF loc[p].ecase = NoId
       THEN Finish(p, Result("deleteCaseEvent", "ok", loc[p].eid, NoId, "", ""))
       ELSE Goto(p, "sy_read", [loc[p] EXCEPT !.skid = loc[p].ecase])
    /\ projected' = [k \in CaseIds |-> IF k = EventCase(loc[p].eid) THEN "" ELSE projected[k]]
    /\ UNCHANGED <<clients, registry, cases, txn, now, nextEventId>>

\* syncAllCaseStatuses: SELECT client_id, case_id FROM cases
syncAllCaseStatusesBegin(p) ==
    /\ LET rows == {[client_id |-> c.client_id, case_id |-> c.case_id] : c \in cases}
       IN IF rows = {}
          THEN Reply(p, Result("syncAllCaseStatuses", "ok", NoId, NoId, "", ""))
          ELSE \E r \in rows :
                  Begin(p, "sy_read", [Idle EXCEPT !.op = "syncAllCaseStatuses",
                                                   !.skid = r.case_id, !.todo = rows \ {r},
                                                   !.total = Cardinality(rows)])
    /\ UNCHANGED <<clients, registry, cases, events, txn, now, nextEventId, projected>>

\* PUT /api/admin/cases/:caseId/status -> storage.updateCaseStatus:
\* UPDATE cases SET last_case_status = ? WHERE case_id = ?; return getCase(caseId)
updateCaseStatus(p) ==
    \E kid \in CaseIds, st \in InitialStatuses :
        /\ cases' = {IF c.case_id = kid THEN [c EXCEPT !.last_case_status = st] ELSE c
                        : c \in cases}
        /\ Reply(p, Result("updateCaseStatus", IF getCase(kid) = {} THEN "CaseNotFound" ELSE "ok",
                           NoId, kid, "", st))
        /\ UNCHANGED <<clients, registry, events, txn, now, nextEventId, projected>>

\* the page and limit query parameters a caller can send; "absent" is a
\* missing or non-numeric parameter (parseInt gives NaN)
QueryTexts == {"absent", "-1", "0", "1", "2", "3"}

DefaultPage == 1
DefaultLimit == 20

\* parseInt(req.query.x as string) || dflt: NaN and 0 are falsy
QueryNumber(text, dflt) ==
    CASE text = "-1" -> -1
      [] text = "1" -> 1
      [] text = "2" -> 2
      [] text = "3" -> 3
      [] OTHER -> dflt

\* Array.prototype.slice(start, end): a negative index counts from the end of
\* the list, both indices are clamped to 0 .. length
RelativeIndex(n, len) ==
    IF n < 0 THEN (IF len + n < 0 THEN 0 ELSE len + n) ELSE (IF n > len THEN len ELSE n)

slice(list, start, end) ==
    SubSeq(list, RelativeIndex(start, Len(list)) + 1, RelativeIndex(end, Len(list)))

\* GET /api/client/cases/:caseId/events, for the client of the session: the case
\* is looked up and must belong to that client, then the events are listed and
\* one page of them is returned
getClientCaseEventsPage(p) ==
    \E clientId \in ClientIds, kid \in CaseIds, pageText \in QueryTexts, limitText \in QueryTexts :
        /\ IF \A c \in getCase(kid) : c.client_id # clientId
           THEN Reply(p, Result("getClientCaseEvents", "Forbidden", clientId, kid, "", ""))
           ELSE \E rows \in getCaseEvents(CaseEventsOf(kid)) :
                  LET page == QueryNumber(pageText, DefaultPage)
                      limit == QueryNumber(limitText, DefaultLimit)
                      offset == (page - 1) * limit
                      paginatedEvents == slice(rows, offset, offset + limit)
                  IN Reply(p, [Result("getClientCaseEvents", "ok", clientId, kid, "", "")
                                 EXCEPT !.list = [i \in DOMAIN paginatedEvents |->
                                                    [id |-> paginatedEvents[i].id,
                                                     at |-> paginatedEvents[i].occurred_at]],
                                        !.page = page,
                                        !.limit = limit,
                                        !.hasMore = (offset + limit < Len(rows))])
        /\ UNCHANGED <<clients, registry, cases, events, txn, now, nextEventId, projected>>

(* ------------------- the storage operations themselves ---------------- *)
(* IStorage is the interface of the core; the operations below are called  *)
(* with arguments that no route has checked.                               *)

\* storage.createCase(clientId, status, caseId?): no statement reads table clients
createCase(p) ==
    \E cid \in ClientIds, st \in InitialStatuses, custom \in CaseIds \cup {NoId} :
        /\ Begin(p, IF custom = NoId THEN "kc_auto" ELSE "kc_custom",
                 [Idle EXCEPT !.op = "createCase", !.cid = cid, !.typ = st, !.kid = custom,
                              !.custom = (custom # NoId)])
        /\ UNCHANGED <<clients, registry, cases, events, txn, now, nextEventId, projected>>

\* storage.createCaseEvent(caseEvent): no statement reads table cases before the INSERT
createCaseEvent(p) ==
    \E kid \in CaseIds, typ \in EventTypes :
        /\ nextEventId + PendingInserts <= MaxEvents
        /\ Begin(p, "ce_insert",
                 [Idle EXCEPT !.op = "createCaseEvent", !.kid = kid, !.typ = typ, !.det = NULL])
        /\ UNCHANGED <<clients, registry, cases, events, txn, now, nextEventId, projected>>

\* storage.updateCaseEvent(eventId, updates), updates holding any of the two fields
updateCaseEvent(p) ==
    \E eid \in EventIds, patch \in {"none", "eventType", "details", "both"},
       typ \in EventTypes, det \in DetailTexts :
        /\ patch \in {"none", "details"} => typ = CHOOSE t \in EventTypes : TRUE
        /\ Begin(p, "ue_select",
                 [Idle EXCEPT !.op = "updateCaseEvent", !.eid = eid, !.patch = patch,
                              !.typ = typ, !.det = det])
        /\ UNCHANGED <<clients, registry, cases, events, txn, now, nextEventId, projected>>

\* storage.deleteCaseEvent(eventId)
deleteCaseEvent(p) ==
    \E eid \in EventIds :
        /\ Begin(p, "de_select", [Idle EXCEPT !.op = "deleteCaseEvent", !.eid = eid])
        /\ UNCHANGED <<clients, registry, cases, events, txn, now, nextEventId, projected>>

\* storage.getAllLegalCases(): SELECT c.case_id, c.client_id, ..., COALESCE((SELECT
\* ce.event_type FROM Case_Events ce WHERE ce.case_id = c.case_id ORDER BY
\* ce.occurred_at DESC LIMIT 1), c.last_case_status) as current_status FROM cases c;
\* the response is followed for one row of the list
getAllLegalCases(p) ==
    /\ \E c \in cases :
          \E current_status \in (IF CaseEventsOf(c.case_id) = {} THEN {c.last_case_status}
                                 ELSE {e.event_type : e \in Latest(CaseEventsOf(c.case_id))}) :
              Reply(p, Result("getAllLegalCases", "ok", c.client_id, c.case_id, "",
                              current_status))
    /\ UNCHANGED <<clients, registry, cases, events, txn, now, nextEventId, projected>>

\* storage.getCaseEvents(caseId): SELECT * FROM Case_Events WHERE case_id = ?
\* ORDER BY occurred_at DESC, the rows mapped to events in the order returned
getCaseEventsQuery(p) ==
    \E kid \in CaseIds : \E rows \in getCaseEvents(CaseEventsOf(kid)) :
        /\ Reply(p, [Result("getCaseEvents", "ok", NoId, kid, "", "")
                       EXCEPT !.list = [i \in DOMAIN rows |->
                                           [id |-> rows[i].id, at |-> rows[i].occurred_at]]])
        /\ UNCHANGED <<clients, registry, cases, events, txn, now, nextEventId, projected>>

(* ----------------------------- MemStorage ----------------------------- *)
(* The maps of MemStorage; a Map keeps its keys in insertion order, so     *)
(* caseEvents is a sequence.  No method awaits I/O: each call is one step. *)

\* the texts a caseId can be passed as: the decimal text of the number, and a
\* text that parseInt reads as the same number ("01000000", "1000000abc")
CaseIdTexts == {[num |-> k, text |-> t] : k \in CaseIds, t \in {"decimal", "other"}}

\* no caseId argument (undefined)
NoText == [num |-> NoId, text |-> "undefined"]

\* (1000000).toString(); the toString() of a text is the text
toString(n) == [num |-> n, text |-> "decimal"]

\* parseInt("1000000") = parseInt("01000000") = 1000000
parseInt(s) == s.num

\* a call of a MemStorage method: it runs to its return
MemCall(m, result) ==
    /\ storage = "MemStorage"
    /\ quota > 0
    /\ quota' = quota - 1
    /\ mem' = m
    /\ res' = result
    /\ UNCHANGED <<clients, registry, cases, events, txn, now, pc, loc, projected, storage>>

\* .sort((a, b) => b.occurredAt.getTime() - a.occurredAt.getTime()): the sort is
\* stable, events of one occurrence time keep their order
RECURSIVE SortByOccurredAt(_, _)
SortByOccurredAt(list, t) ==
    IF t = 0 THEN <<>>
    ELSE SelectSeq(list, LAMBDA e : e.occurredAt = t) \o SortByOccurredAt(list, t - 1)

\* MemStorage.getCaseEvents(caseId): filter(event => event.caseId === caseIdStr).sort(...)
MemStorage_getCaseEvents(m, caseIdStr) ==
    SortByOccurredAt(SelectSeq(m.caseEvents, LAMBDA e : e.caseId = caseIdStr), MaxClock)

\* a call of MemStorage.getCaseEvents(caseId) with a text (a number is passed
\* on as its decimal text)
MemStorage_getCaseEventsCall ==
    \E caseId \in CaseIdTexts :
        /\ LET list == MemStorage_getCaseEvents(mem, caseId)
           IN MemCall(mem, [Result("getCaseEvents", "ok", NoId, parseInt(caseId), "", "")
                              EXCEPT !.list = [i \in DOMAIN list |->
                                                  [id |-> list[i].id, at |-> list[i].occurredAt]]])
        /\ UNCHANGED nextEventId

\* MemStorage.getCase(caseId): this.cases.get(parseInt(caseId))
MemStorage_getCase(m, n) == {c \in m.cases : c.caseId = n}

\* MemStorage.syncCaseStatus(caseId) at time t: the maps after the call
MemStorage_syncCaseStatus(m, caseIdStr, t) ==
    LET list == MemStorage_getCaseEvents(m, caseIdStr)
        latestEventType == IF Len(list) > 0 THEN list[1].eventType ELSE NULL
    IN [m EXCEPT !.cases =
          {IF c.caseId = parseInt(caseIdStr)
           THEN [c EXCEPT !.lastCaseStatus =
                              IF latestEventType = NULL THEN DefaultStatus ELSE latestEventType,
                          !.lastStatusDate = t]
           ELSE c : c \in @}]

\* MemStorage.getAllCases: every case with lastCaseStatus replaced by the event
\* type of caseEvents[0] of getCaseEvents(case_.caseId), when the case has events;
\* the response is followed for one case of the list
MemStorage_getAllCases ==
    \E case_ \in mem.cases :
        LET caseEvents == MemStorage_getCaseEvents(mem, toString(case_.caseId))
            latestStatus == IF Len(caseEvents) > 0 THEN caseEvents[1].eventType
                            ELSE case_.lastCaseStatus
        IN /\ MemCall(mem, Result("getAllCases", "ok", case_.clientId, case_.caseId, "",
                                  latestStatus))
           /\ UNCHANGED nextEventId

\* MemStorage.createClient: clientId = this.nextClientId++
MemStorage_createClient ==
    \E nat \in NationalIds :
        \* the counter has no upper limit; calls are followed up to the first
        \* identifier past the range generateClientId draws from
        /\ mem.nextClientId <= MinClientId + NumClientIds
        /\ MemCall([mem EXCEPT !.clients = @ \cup {[clientId |-> mem.nextClientId,
                                                    nationalId |-> nat]},
                               !.nextClientId = @ + 1],
                   Result("createClient", "ok", mem.nextClientId, NoId, nat, ""))
        /\ UNCHANGED nextEventId

\* MemStorage.createCase: numericCaseId = caseId ? parseInt(caseId) : this.nextCaseId++;
\* this.cases.set(numericCaseId, case_)
MemStorage_createCase ==
    \E cid \in ClientIds, st \in InitialStatuses, custom \in CaseIdTexts \cup {NoText} :
        LET numericCaseId == IF custom = NoText THEN mem.nextCaseId ELSE parseInt(custom)
            case_ == [caseId |-> numericCaseId, clientId |-> cid, lastCaseStatus |-> st,
                      lastStatusDate |-> now]
        IN \* the counter has no upper limit; calls are followed up to the first
           \* identifier past the range generateCaseId draws from
           /\ numericCaseId <= MinCaseId + NumCaseIds
           /\ MemCall([mem EXCEPT !.cases = {c \in @ : c.caseId # numericCaseId} \cup {case_},
                                  !.nextCaseId = IF custom = NoText THEN @ + 1 ELSE @],
                      [Result("createCase", "ok", cid, numericCaseId, "", st)
                         EXCEPT !.generated = (custom = NoText)])
           /\ UNCHANGED nextEventId

\* MemStorage.createCaseEvent: this.caseEvents.set(id, newEvent); syncCaseStatus(caseId)
MemStorage_createCaseEvent ==
    \E caseId \in CaseIdTexts, typ \in EventTypes :
        LET newEvent == [id |-> nextEventId, caseId |-> caseId, eventType |-> typ,
                         occurredAt |-> now, details |-> NULL]
        IN /\ nextEventId <= MaxEvents
           /\ nextEventId' = nextEventId + 1
           /\ MemCall(MemStorage_syncCaseStatus(
                          [mem EXCEPT !.caseEvents = Append(@, newEvent)], caseId, now),
                      Result("createCaseEvent", "ok", nextEventId, parseInt(caseId), "", typ))

\* the event stored under an id, <<>> when there is none
MemEvent(m, eid) == SelectSeq(m.caseEvents, LAMBDA e : e.id = eid)

\* MemStorage.updateCaseEvent: if (!event) return null; the supplied fields are
\* assigned; syncCaseStatus(event.caseId)
MemStorage_updateCaseEvent ==
    \E eid \in EventIds, patch \in {"none", "eventType", "details", "both"},
       typ \in EventTypes, det \in DetailTexts :
        /\ patch \in {"none", "details"} => typ = CHOOSE t \in EventTypes : TRUE
        /\ IF MemEvent(mem, eid) = <<>>
           THEN MemCall(mem, Result("updateCaseEvent", "EventNotFound", eid, NoId, "", ""))
           ELSE LET event == MemEvent(mem, eid)[1]
                    amended == [i \in DOMAIN mem.caseEvents |->
                                   IF mem.caseEvents[i].id = eid
                                   THEN [event EXCEPT
                                           !.eventType = IF patch \in {"eventType", "both"}
                                                         THEN typ ELSE @,
                                           !.details = IF patch \in {"details", "both"}
                                                       THEN det ELSE @]
                                   ELSE mem.caseEvents[i]]
                IN MemCall(MemStorage_syncCaseStatus([mem EXCEPT !.caseEvents = amended],
                                                     event.caseId, now),
                           Result("updateCaseEvent", "ok", eid, parseInt(event.caseId), "", patch))
        /\ UNCHANGED nextEventId

\* MemStorage.deleteCaseEvent: if (!event) return false; this.caseEvents.delete(eventId);
\* syncCaseStatus(caseId)
MemStorage_deleteCaseEvent ==
    \E eid \in EventIds :
        /\ IF MemEvent(mem, eid) = <<>>
           THEN MemCall(mem, Result("deleteCaseEvent", "EventNotFound", eid, NoId, "", ""))
           ELSE LET event == MemEvent(mem, eid)[1]
                IN MemCall(MemStorage_syncCaseStatus(
                               [mem EXCEPT !.caseEvents = SelectSeq(@, LAMBDA e : e.id # eid)],
                               event.caseId, now),
                           Result("deleteCaseEvent", "ok", eid, parseInt(event.caseId), "", ""))
        /\ UNCHANGED nextEventId

\* syncCaseStatus(case_.caseId) for the cases of the list, in turn
RECURSIVE MemSyncEach(_, _, _)
MemSyncEach(m, todo, t) ==
    IF todo = {} THEN m
    ELSE LET k == CHOOSE x \in todo : TRUE
         IN MemSyncEach(MemStorage_syncCaseStatus(m, toString(k), t), todo \ {k}, t)

\* MemStorage.syncAllCaseStatuses: for (const case_ of allCases) await
\* this.syncCaseStatus(case_.caseId); the log line names allCases.length
MemStorage_syncAllCaseStatuses ==
    /\ MemCall(MemSyncEach(mem, {c.caseId : c \in mem.cases}, now),
               [Result("syncAllCaseStatuses", "ok", NoId, NoId, "", "")
                  EXCEPT !.completed = Cardinality(mem.cases)])
    /\ UNCHANGED nextEventId

\* the database clock advances
Tick ==
    /\ now < MaxClock
    /\ now' = now + 1
    /\ res' = NoRes
    /\ UNCHANGED <<clients, registry, cases, events, txn, nextEventId, quota, pc, loc, projected,
                   storage, mem>>

(* --------------------------- specifications --------------------------- *)

\* the allocator: clients, the registry and cases, from an empty database
NextAlloc ==
    \E p \in Procs :
        \/ createClientBegin(p)
        \/ createClientAlloc(p)
        \/ createClientRegistry(p)
        \/ createClientInsert(p)
        \/ createClientCommit(p)
        \/ createTestClientInsert(p)
        \/ createTestClientRegistry(p)
        \/ createCaseBegin(p)
        \/ createCaseCustom(p)
        \/ createCaseAuto(p)
        \/ createCaseInsert(p)

SpecAlloc == Init /\ [][NextAlloc]_vars

\* createClient and createCase requests only
NextCreate ==
    \E p \in Procs :
        \/ createClientBegin(p)
        \/ createClientAlloc(p)
        \/ createClientRegistry(p)
        \/ createClientInsert(p)
        \/ createClientCommit(p)
        \/ createCaseBegin(p)
        \/ createCaseCustom(p)
        \/ createCaseAuto(p)
        \/ createCaseInsert(p)

SpecCreate == Init /\ [][NextCreate]_vars

\* every handler that is inside a request executes its next statement in the
\* end, and a re-sampling loop that can draw a free identifier draws one
FairCreate ==
    \A p \in Procs :
        /\ WF_vars(createClientAlloc(p))
        /\ WF_vars(createClientRegistry(p))
        /\ WF_vars(createClientInsert(p))
        /\ WF_vars(createClientCommit(p))
        /\ WF_vars(createCaseCustom(p))
        /\ WF_vars(createCaseAuto(p))
        /\ WF_vars(createCaseInsert(p))

SpecCreateFair == Init /\ [][NextCreate]_vars /\ FairCreate

\* two clients are registered: the state after two createClient requests
InitRace ==
    /\ clients = {[client_id |-> MinClientId, national_id |-> "1111111111"],
                  [client_id |-> MinClientId + 1, national_id |-> TestNationalId]}
    /\ registry = {[national_id |-> "1111111111", client_id |-> MinClientId],
                   [national_id |-> TestNationalId, client_id |-> MinClientId + 1]}
    /\ cases = {}
    /\ events = {}
    /\ txn = [p \in Procs |-> NoTxn]
    /\ now = 1
    /\ nextEventId = 1
    /\ quota = MaxRaceRequests
    /\ pc = [p \in Procs |-> "idle"]
    /\ loc = [p \in Procs |-> Idle]
    /\ res = NoRes
    /\ projected = [k \in CaseIds |-> ""]
    /\ storage = "SingleStoreStorage"
    /\ mem = MemStorage

\* no other handler is inside a request that writes statuses
Alone(p) == \A q \in Procs \ {p} : ~InStatusOp(q)

\* the requests that write statuses are served one at a time; case creation
\* requests interleave with them and with each other
NextSerial ==
    \/ Tick
    \/ \E p \in Procs :
        \/ createCaseBegin(p)
        \/ createCaseCustom(p)
        \/ createCaseAuto(p)
        \/ createCaseInsert(p)
        \/ Alone(p) /\ createCaseEventBegin(p)
        \/ createCaseEventInsert(p)
        \/ createCaseEventSelect(p)
        \/ Alone(p) /\ updateCaseEventBegin(p)
        \/ updateCaseEventSelect(p)
        \/ updateCaseEventUpdate(p)
        \/ updateCaseEventGet(p)
        \/ Alone(p) /\ deleteCaseEventBegin(p)
        \/ deleteCaseEventSelect(p)
        \/ deleteCaseEventDelete(p)
        \/ syncCaseStatusRead(p)
        \/ syncCaseStatusCase(p)
        \/ syncCaseStatusWrite(p)
        \/ Alone(p) /\ syncAllCaseStatusesBegin(p)
        \/ Alone(p) /\ updateCaseStatus(p)

SpecSerial == InitRace /\ [][NextSerial]_vars

\* one handler serves the requests one after the other
InitSolo ==
    /\ clients = {[client_id |-> MinClientId, national_id |-> "1111111111"],
                  [client_id |-> MinClientId + 1, national_id |-> TestNationalId]}
    /\ registry = {[national_id |-> "1111111111", client_id |-> MinClientId],
                   [national_id |-> TestNationalId, client_id |-> MinClientId + 1]}
    /\ cases = {}
    /\ events = {}
    /\ txn = [p \in Procs |-> NoTxn]
    /\ now = 1
    /\ nextEventId = 1
    /\ quota = MaxSoloRequests
    /\ pc = [p \in Procs |-> "idle"]
    /\ loc = [p \in Procs |-> Idle]
    /\ res = NoRes
    /\ projected = [k \in CaseIds |-> ""]
    /\ storage = "SingleStoreStorage"
    /\ mem = MemStorage

Solo == CHOOSE p \in Procs : TRUE

NextSolo ==
    \/ Tick
    \/ createCaseBegin(Solo)
    \/ createCaseCustom(Solo)
    \/ createCaseAuto(Solo)
    \/ createCaseInsert(Solo)
    \/ createCaseEventBegin(Solo)
    \/ createCaseEventInsert(Solo)
    \/ createCaseEventSelect(Solo)
    \/ updateCaseEventBegin(Solo)
    \/ updateCaseEventSelect(Solo)
    \/ updateCaseEventUpdate(Solo)
    \/ updateCaseEventGet(Solo)
    \/ deleteCaseEventBegin(Solo)
    \/ deleteCaseEventSelect(Solo)
    \/ deleteCaseEventDelete(Solo)
    \/ syncCaseStatusRead(Solo)
    \/ syncCaseStatusCase(Solo)
    \/ syncCaseStatusWrite(Solo)
    \/ syncAllCaseStatusesBegin(Solo)
    \/ updateCaseStatus(Solo)

SpecSolo == InitSolo /\ [][NextSolo]_vars

\* the first client owns one case under every case identifier, each created by
\* createCase with its default status
InitLog ==
    /\ clients = {[client_id |-> MinClientId, national_id |-> "1111111111"],
                  [client_id |-> MinClientId + 1, national_id |-> TestNationalId]}
    /\ registry = {[national_id |-> "1111111111", client_id |-> MinClientId],
                   [national_id |-> TestNationalId, client_id |-> MinClientId + 1]}
    /\ cases = {[client_id |-> MinClientId, case_id |-> k,
                 last_case_status |-> "under-review"] : k \in CaseIds}
    /\ events = {}
    /\ txn = [p \in Procs |-> NoTxn]
    /\ now = 1
    /\ nextEventId = 1
    /\ quota = MaxLogRequests
    /\ pc = [p \in Procs |-> "idle"]
    /\ loc = [p \in Procs |-> Idle]
    /\ res = NoRes
    /\ projected = [k \in CaseIds |-> ""]
    /\ storage = "SingleStoreStorage"
    /\ mem = MemStorage

\* one handler serves event-log requests and bulk re-projections
NextLog ==
    \/ Tick
    \/ createCaseEventBegin(Solo)
    \/ createCaseEventInsert(Solo)
    \/ createCaseEventSelect(Solo)
    \/ updateCaseEventBegin(Solo)
    \/ updateCaseEventSelect(Solo)
    \/ updateCaseEventUpdate(Solo)
    \/ updateCaseEventGet(Solo)
    \/ deleteCaseEventBegin(Solo)
    \/ deleteCaseEventSelect(Solo)
    \/ deleteCaseEventDelete(Solo)
    \/ syncCaseStatusRead(Solo)
    \/ syncCaseStatusCase(Solo)
    \/ syncCaseStatusWrite(Solo)
    \/ syncAllCaseStatusesBegin(Solo)

SpecLog == InitLog /\ [][NextLog]_vars


\* one client is registered and no case exists: the state after one createClient,
\* in either implementation of IStorage
InitCalls ==
    /\ storage \in {"SingleStoreStorage", "MemStorage"}
    /\ clients = {[client_id |-> MinClientId, national_id |-> "1111111111"]}
    /\ registry = {[national_id |-> "1111111111", client_id |-> MinClientId]}
    /\ mem = [MemStorage EXCEPT !.clients = {[clientId |-> MinClientId,
                                             nationalId |-> "1111111111"]},
                                !.nextClientId = MinClientId + 1]
    /\ cases = {}
    /\ events = {}
    /\ txn = [p \in Procs |-> NoTxn]
    /\ now = 1
    /\ nextEventId = 1
    /\ quota = MaxCallRequests
    /\ pc = [p \in Procs |-> "idle"]
    /\ loc = [p \in Procs |-> Idle]
    /\ res = NoRes
    /\ projected = [k \in CaseIds |-> ""]

\* one caller invokes the operations of the storage, one call after the other
NextCalls ==
    \/ Tick
    \/ createCase(Solo)
    \/ createCaseCustom(Solo)
    \/ createCaseAuto(Solo)
    \/ createCaseInsert(Solo)
    \/ createCaseEvent(Solo)
    \/ createCaseEventInsert(Solo)
    \/ createCaseEventSelect(Solo)
    \/ updateCaseEvent(Solo)
    \/ updateCaseEventSelect(Solo)
    \/ updateCaseEventUpdate(Solo)
    \/ updateCaseEventGet(Solo)
    \/ deleteCaseEvent(Solo)
    \/ deleteCaseEventSelect(Solo)
    \/ deleteCaseEventDelete(Solo)
    \/ syncCaseStatusRead(Solo)
    \/ syncCaseStatusCase(Solo)
    \/ syncCaseStatusWrite(Solo)
    \/ syncAllCaseStatusesBegin(Solo)
    \/ MemStorage_createCase
    \/ MemStorage_createCaseEvent
    \/ MemStorage_updateCaseEvent
    \/ MemStorage_deleteCaseEvent
    \/ MemStorage_syncAllCaseStatuses

SpecCalls == InitCalls /\ [][NextCalls]_vars

\* the first client owns one case under every case identifier, in either
\* implementation of IStorage; requests calls can be made
InitCases(requests) ==
    /\ storage \in {"SingleStoreStorage", "MemStorage"}
    /\ clients = {[client_id |-> MinClientId, national_id |-> "1111111111"]}
    /\ registry = {[national_id |-> "1111111111", client_id |-> MinClientId]}
    /\ cases = {[client_id |-> MinClientId, case_id |-> k,
                 last_case_status |-> "under-review"] : k \in CaseIds}
    /\ mem = [MemStorage EXCEPT
                !.clients = {[clientId |-> MinClientId, nationalId |-> "1111111111"]},
                !.nextClientId = MinClientId + 1,
                !.cases = {[caseId |-> k, clientId |-> MinClientId,
                            lastCaseStatus |-> "under-review", lastStatusDate |-> 1]
                              : k \in CaseIds},
                !.nextCaseId = MinCaseId + NumCaseIds]
    /\ events = {}
    /\ txn = [p \in Procs |-> NoTxn]
    /\ now = 1
    /\ nextEventId = 1
    /\ quota = requests
    /\ pc = [p \in Procs |-> "idle"]
    /\ loc = [p \in Procs |-> Idle]
    /\ res = NoRes
    /\ projected = [k \in CaseIds |-> ""]

InitBatch == InitCases(MaxBatchRequests)

\* one caller appends events and runs bulk re-projections; a statement of a
\* re-projection can fail
NextBatch ==
    \/ Tick
    \/ createCaseEvent(Solo)
    \/ createCaseEventInsert(Solo)
    \/ createCaseEventSelect(Solo)
    \/ syncCaseStatusRead(Solo)
    \/ syncCaseStatusCase(Solo)
    \/ syncCaseStatusWrite(Solo)
    \/ syncCaseStatusFail(Solo)
    \/ syncAllCaseStatusesBegin(Solo)
    \/ MemStorage_createCaseEvent
    \/ MemStorage_syncAllCaseStatuses

SpecBatch == InitBatch /\ [][NextBatch]_vars

\* the cases exist and their logs are empty
InitEdit == InitCases(MaxEditRequests)

\* one caller appends, amends and deletes events, one call after the other
NextEdit ==
    \/ Tick
    \/ createCaseEvent(Solo)
    \/ createCaseEventInsert(Solo)
    \/ createCaseEventSelect(Solo)
    \/ updateCaseEvent(Solo)
    \/ updateCaseEventSelect(Solo)
    \/ updateCaseEventUpdate(Solo)
    \/ updateCaseEventGet(Solo)
    \/ deleteCaseEvent(Solo)
    \/ deleteCaseEventSelect(Solo)
    \/ deleteCaseEventDelete(Solo)
    \/ syncCaseStatusRead(Solo)
    \/ syncCaseStatusCase(Solo)
    \/ syncCaseStatusWrite(Solo)
    \/ MemStorage_createCaseEvent
    \/ MemStorage_updateCaseEvent
    \/ MemStorage_deleteCaseEvent

SpecEdit == InitEdit /\ [][NextEdit]_vars

\* the event-log calls and the listing of the events of a case
NextList ==
    \/ NextEdit
    \/ getCaseEventsQuery(Solo)
    \/ MemStorage_getCaseEventsCall

SpecList == InitEdit /\ [][NextList]_vars

\* the logs that event-log requests on the existing cases can leave: every
\* event has its own identifier, and an event inserted later does not occur
\* earlier
EventLogs ==
    {log \in SUBSET [id : EventIds, case_id : CaseIds, event_type : {"lawyer-study"},
                     occurred_at : Times, details : {NULL}] :
        \A e, f \in log : /\ e.id = f.id => e = f
                          /\ e.id < f.id => e.occurred_at <= f.occurred_at}

\* the first client owns the cases, and the log is any of EventLogs
InitPages ==
    /\ storage = "SingleStoreStorage"
    /\ mem = MemStorage
    /\ clients = {[client_id |-> MinClientId, national_id |-> "1111111111"],
                  [client_id |-> MinClientId + 1, national_id |-> TestNationalId]}
    /\ registry = {[national_id |-> "1111111111", client_id |-> MinClientId],
                   [national_id |-> TestNationalId, client_id |-> MinClientId + 1]}
    /\ events \in EventLogs
    /\ cases = {[client_id |-> MinClientId, case_id |-> k,
                 last_case_status |-> IF CaseEventsOf(k) = {} THEN "under-review"
                                      ELSE "lawyer-study"] : k \in CaseIds}
    /\ txn = [p \in Procs |-> NoTxn]
    /\ now = MaxClock
    /\ nextEventId = MaxEvents + 1
    /\ quota = MaxPageRequests
    /\ pc = [p \in Procs |-> "idle"]
    /\ loc = [p \in Procs |-> Idle]
    /\ res = NoRes
    /\ projected = [k \in CaseIds |-> ""]

\* pages of the fixed log are requested
NextPages == getClientCaseEventsPage(Solo)

SpecPages == InitPages /\ [][NextPages]_vars

\* client creations only: createClient and the create-test-client route, from
\* an empty database
InitRegistry ==
    /\ clients = {}
    /\ registry = {}
    /\ cases = {}
    /\ events = {}
    /\ txn = [p \in Procs |-> NoTxn]
    /\ now = 1
    /\ nextEventId = 1
    /\ quota = MaxRegistryRequests
    /\ pc = [p \in Procs |-> "idle"]
    /\ loc = [p \in Procs |-> Idle]
    /\ res = NoRes
    /\ projected = [k \in CaseIds |-> ""]
    /\ storage = "SingleStoreStorage"
    /\ mem = MemStorage

NextRegistry ==
    \E p \in Procs :
        \/ createClientBegin(p)
        \/ createClientAlloc(p)
        \/ createClientRegistry(p)
        \/ createClientInsert(p)
        \/ createClientCommit(p)
        \/ createTestClientInsert(p)
        \/ createTestClientRegistry(p)

SpecRegistry == InitRegistry /\ [][NextRegistry]_vars

\* one caller creates clients and cases on either storage, from empty stores
InitIds ==
    /\ storage \in {"SingleStoreStorage", "MemStorage"}
    /\ clients = {}
    /\ registry = {}
    /\ mem = MemStorage
    /\ cases = {}
    /\ events = {}
    /\ txn = [p \in Procs |-> NoTxn]
    /\ now = 1
    /\ nextEventId = 1
    /\ quota = MaxIdRequests
    /\ pc = [p \in Procs |-> "idle"]
    /\ loc = [p \in Procs |-> Idle]
    /\ res = NoRes
    /\ projected = [k \in CaseIds |-> ""]

NextIds ==
    \/ createClientBegin(Solo)
    \/ createClientAlloc(Solo)
    \/ createClientRegistry(Solo)
    \/ createClientInsert(Solo)
    \/ createClientCommit(Solo)
    \/ createCase(Solo)
    \/ createCaseCustom(Solo)
    \/ createCaseAuto(Solo)
    \/ createCaseInsert(Solo)
    \/ MemStorage_createClient
    \/ MemStorage_createCase

SpecIds == InitIds /\ [][NextIds]_vars

\* two handlers serve createCaseEvent requests on the cases that already exist;
\* their statements interleave at every await
InitOverlap ==
    /\ clients = {[client_id |-> MinClientId, national_id |-> "1111111111"],
                  [client_id |-> MinClientId + 1, national_id |-> TestNationalId]}
    /\ registry = {[national_id |-> "1111111111", client_id |-> MinClientId],
                   [national_id |-> TestNationalId, client_id |-> MinClientId + 1]}
    /\ cases = {[client_id |-> MinClientId, case_id |-> k,
                 last_case_status |-> "under-review"] : k \in CaseIds}
    /\ events = {}
    /\ txn = [p \in Procs |-> NoTxn]
    /\ now = 1
    /\ nextEventId = 1
    /\ quota = MaxOverlapRequests
    /\ pc = [p \in Procs |-> "idle"]
    /\ loc = [p \in Procs |-> Idle]
    /\ res = NoRes
    /\ projected = [k \in CaseIds |-> ""]
    /\ storage = "SingleStoreStorage"
    /\ mem = MemStorage

NextOverlap ==
    \/ Tick
    \/ \E p \in Procs :
        \/ createCaseEventBegin(p)
        \/ createCaseEventInsert(p)
        \/ createCaseEventSelect(p)
        \/ syncCaseStatusRead(p)
        \/ syncCaseStatusWrite(p)

SpecOverlap == InitOverlap /\ [][NextOverlap]_vars

\* one caller mutates the event logs of the cases that already exist; a
\* statement of syncCaseStatus can reject
InitFail ==
    /\ clients = {[client_id |-> MinClientId, national_id |-> "1111111111"],
                  [client_id |-> MinClientId + 1, national_id |-> TestNationalId]}
    /\ registry = {[national_id |-> "1111111111", client_id |-> MinClientId],
                   [national_id |-> TestNationalId, client_id |-> MinClientId + 1]}
    /\ cases = {[client_id |-> MinClientId, case_id |-> k,
                 last_case_status |-> "under-review"] : k \in CaseIds}
    /\ events = {}
    /\ txn = [p \in Procs |-> NoTxn]
    /\ now = 1
    /\ nextEventId = 1
    /\ quota = MaxFailRequests
    /\ pc = [p \in Procs |-> "idle"]
    /\ loc = [p \in Procs |-> Idle]
    /\ res = NoRes
    /\ projected = [k \in CaseIds |-> ""]
    /\ storage = "SingleStoreStorage"
    /\ mem = MemStorage

NextFail ==
    \/ Tick
    \/ createCaseEvent(Solo)
    \/ createCaseEventInsert(Solo)
    \/ createCaseEventSelect(Solo)
    \/ updateCaseEvent(Solo)
    \/ updateCaseEventSelect(Solo)
    \/ updateCaseEventUpdate(Solo)
    \/ updateCaseEventGet(Solo)
    \/ deleteCaseEvent(Solo)
    \/ deleteCaseEventSelect(Solo)
    \/ deleteCaseEventDelete(Solo)
    \/ syncCaseStatusRead(Solo)
    \/ syncCaseStatusCase(Solo)
    \/ syncCaseStatusWrite(Solo)
    \/ syncCaseStatusFail(Solo)

SpecFail == InitFail /\ [][NextFail]_vars

\* the event-log calls and the computed listing of the cases
NextRead ==
    \/ NextEdit
    \/ getAllLegalCases(Solo)
    \/ MemStorage_getAllCases

SpecRead == InitEdit /\ [][NextRead]_vars

(* ------------------------------- claims ------------------------------- *)

EventMutations == {"createCaseEvent", "updateCaseEvent", "deleteCaseEvent"}

\* the statuses the event log of case k implies: the event type of an event of
\* greatest occurrence time, the default when the log is empty
Implied(k) ==
    IF CaseEventsOf(k) = {} THEN {DefaultStatus}
    ELSE {e.event_type : e \in Latest(CaseEventsOf(k))}

\* handler p executes the statement it is at
Steps(p) == pc'[p] # pc[p] \/ loc'[p] # loc[p]

\* C1: when an event-log mutation that did not overlap another status request
\* has completed, every case record of the case it targeted stores a status
\* implied by the event log of that case.
C1_StatusMirrorsLog ==
    (res.op \in EventMutations /\ res.out = "ok" /\ res.kid # NoId)
        => \A c \in getCase(res.kid) : c.last_case_status \in Implied(res.kid)

\* C2: no two client records carry the same national id, so of two createClient
\* calls with one national id only one can have stored its client.
C2_NaturalKeyExclusive ==
    \A c1, c2 \in clients : c1.national_id = c2.national_id => c1 = c2

\* C3: after every step the registry holds an entry (nationalId, C) exactly when a
\* client record C with that nationalId exists, and a createClient request that
\* fails has changed neither table.
RegistryMirrorsClients ==
    /\ \A r \in registry : \E c \in clients :
            c.client_id = r.client_id /\ c.national_id = r.national_id
    /\ \A c \in clients : \E r \in registry :
            r.client_id = c.client_id /\ r.national_id = c.national_id

C3_BothOrNeither ==
    [][/\ RegistryMirrorsClients'
       /\ (res'.op = "createClient" /\ res'.out # "ok")
              => (clients' = clients /\ registry' = registry)]_vars

\* C4: the identifier a successful createClient returns is held by exactly one
\* stored client, and the identifier a successful createCase generated is held
\* by exactly one stored case, whichever client owns it.
C4_IdentifiersDistinct ==
    /\ (res.op = "createClient" /\ res.out = "ok")
          => Cardinality({c \in clients : c.client_id = res.id}) = 1
    /\ (res.op = "createCase" /\ res.out = "ok" /\ res.generated)
          => Cardinality({c \in cases : c.case_id = res.kid}) = 1

\* C5: the stored status of an existing case changes only in the UPDATE of the
\* projector, run for an event-log mutation or for the bulk re-projection.
StatusChanged ==
    \E c \in cases : \E d \in cases' :
        /\ d.client_id = c.client_id
        /\ d.case_id = c.case_id
        /\ d.last_case_status # c.last_case_status

C5_OnlyProjectorWritesStatus ==
    [][StatusChanged =>
         \E p \in Procs : /\ pc[p] = "sy_write"
                          /\ Steps(p)
                          /\ loc[p].op \in EventMutations \cup {"syncAllCaseStatuses"}]_vars

\* C6: when the events of a case have pairwise distinct occurrence times, the
\* re-projection of the case leaves in the case record it addresses the event
\* type of the event of greatest occurrence time.  (The formula also holds
\* under SpecSerial, where racing case creations can leave a second record
\* with the same case identifier, which the projector does not write.)
DistinctTimes(k) ==
    \A e, f \in CaseEventsOf(k) : e.occurred_at = f.occurred_at => e = f

C7_EmptyLogFallsBack ==
    (res.op = "deleteCaseEvent" /\ res.out = "ok" /\ res.kid # NoId
        /\ CaseEventsOf(res.kid) = {})
        => \A c \in getCase(res.kid) : c.last_case_status = DefaultStatus

\* C8: a re-projection of a case whose log has not been mutated since the last
\* re-projection writes the status that re-projection wrote, and no step of the
\* projector changes an event.
C8_ReprojectIdempotent ==
    [][\A p \in Procs :
         (pc[p] = "sy_write" /\ Steps(p))
         => /\ events' = events
            /\ projected[loc[p].skid] # "" => loc[p].styp = projected[loc[p].skid]]_vars

\* C9: an amendment that supplies only details keeps the identifier, the owning
\* case, the event type and the occurrence time of every event, and the
\* re-projection it triggers changes no stored status when the amended event is
\* not the most recent event of its case.
SameButDetails(e, f) ==
    /\ f.id = e.id
    /\ f.case_id = e.case_id
    /\ f.event_type = e.event_type
    /\ f.occurred_at = e.occurred_at

C9_AmendDetailsOnly ==
    [][\A p \in Procs :
         (loc[p].op = "updateCaseEvent" /\ loc[p].patch = "details" /\ Steps(p))
         => /\ \A e \in events : \E f \in events' : SameButDetails(e, f)
            /\ \A f \in events' : \E e \in events : SameButDetails(e, f)
            /\ (\E e \in events : e.id = loc[p].eid /\ e \notin Latest(CaseEventsOf(e.case_id)))
                  => cases' = cases]_vars

\* C10: a createClient request fails only when its national id has a registry
\* entry.
C10_FailsOnlyWhenRegistered ==
    (res.op = "createClient" /\ res.out # "ok")
        => \E r \in registry : r.national_id = res.nat

\* the event log and the case records of the storage in use: each event with its
\* identifier, the number of its case, its type and its occurrence time
Log ==
    IF storage = "MemStorage"
    THEN {[id |-> mem.caseEvents[i].id, case |-> parseInt(mem.caseEvents[i].caseId),
           type |-> mem.caseEvents[i].eventType, at |-> mem.caseEvents[i].occurredAt,
           details |-> mem.caseEvents[i].details] : i \in DOMAIN mem.caseEvents}
    ELSE {[id |-> e.id, case |-> e.case_id, type |-> e.event_type, at |-> e.occurred_at,
           details |-> e.details] : e \in events}

CaseRecords ==
    IF storage = "MemStorage"
    THEN {[case |-> c.caseId, client |-> c.clientId, status |-> c.lastCaseStatus] : c \in mem.cases}
    ELSE {[case |-> c.case_id, client |-> c.client_id, status |-> c.last_case_status] : c \in cases}

CaseExists(k) == \E c \in CaseRecords : c.case = k

\* C11: createCaseEvent for a caseId that references no existing case answers
\* NotFound and inserts no event: every event that enters the log belongs to a
\* case that exists, and a createCaseEvent that returned an event named an
\* existing case.
C11_AppendRequiresCase ==
    [][/\ \A e \in Log' \ Log : CaseExists(e.case)
       /\ (res'.op = "createCaseEvent" /\ res'.out # "CaseNotFound") => CaseExists(res'.kid)]_vars

\* C12: createCase with a supplied identifier that an existing case already uses
\* answers 'already in use' and neither adds nor changes a case; with a supplied
\* identifier that is unused it stores the case under that identifier.
C12_SuppliedIdentifier ==
    [][(res'.op = "createCase" /\ ~res'.generated /\ res'.kid # NoId)
         => IF CaseExists(res'.kid)
            THEN res'.out = "CaseIdInUse" /\ CaseRecords' = CaseRecords
            ELSE /\ res'.out = "ok"
                 /\ \E c \in CaseRecords' : c.case = res'.kid /\ c.client = res'.id]_vars

\* the statuses the event log implies for case k, in the storage in use
ImpliedStatus(k) ==
    LET log == {e \in Log : e.case = k}
    IN IF log = {} THEN {DefaultStatus}
       ELSE {e.type : e \in {f \in log : \A g \in log : g.at <= f.at}}

\* C13: when a bulk re-projection has completed, every case whose projection did
\* not fail stores the status its own event log implies, and the number of
\* cases the operation reports as processed leaves the failed ones out (of 10
\* cases with one failing: processed 9, failed 1).
C13_BatchReport ==
    res.op = "syncAllCaseStatuses"
        => /\ \A c \in CaseRecords : c.case \notin res.errors => c.status \in ImpliedStatus(c.case)
           /\ res.completed = Cardinality(CaseRecords) - Cardinality(res.errors)

\* C14: createClient and createCase without a supplied identifier always
\* terminate: a handler that is in an identifier re-sampling loop leaves it, with
\* an identifier or, when every identifier is in use, with NamespaceExhausted.
C14_AllocationTerminates ==
    \A p \in Procs : (pc[p] \in {"cc_alloc", "kc_auto"}) ~> (pc[p] \notin {"cc_alloc", "kc_auto"})

\* C15: updateCaseEvent with a patch that holds neither eventType nor details is
\* rejected, and it changes neither an event nor the stored status or status
\* timestamp of a case.
C15_EmptyPatchRejected ==
    [][/\ \A p \in Procs :
            (loc[p].op = "updateCaseEvent" /\ loc[p].patch = "none" /\ Steps(p))
                => /\ res'.out = "NoFieldsToUpdate"
                   /\ events' = events
                   /\ cases' = cases
       /\ (res'.op = "updateCaseEvent" /\ res'.typ = "none")
            => /\ res'.out \in {"InvalidArgument", "NoFieldsToUpdate"}
               /\ mem' = mem]_vars

\* an event with this identifier is in the log
InLog(eid) == \E e \in Log : e.id = eid

CaseOf(eid) == (CHOOSE e \in Log : e.id = eid).case

\* the case records of the cases other than k are left as they are
OthersKept(k) ==
    /\ \A c \in cases : c.case_id # k => c \in cases'
    /\ \A c \in mem.cases : c.caseId # k => c \in mem'.cases

C18_ReprojectRequiresCase ==
    [][/\ \A p \in Procs :
            (pc[p] \in {"sy_read", "sy_case", "sy_write"} /\ Steps(p)
                /\ getCase(loc[p].skid) = {} /\ pc'[p] = "idle")
                => res'.out = "CaseNotFound"
       /\ (storage = "MemStorage" /\ res'.op \in EventMutations /\ res'.kid # NoId
             /\ MemStorage_getCase(mem, res'.kid) = {})
            => res'.out = "CaseNotFound"]_vars

\* a client with this identifier is stored
ClientExists(cid) ==
    IF storage = "MemStorage" THEN \E c \in mem.clients : c.clientId = cid
    ELSE \E c \in clients : c.client_id = cid

\* C19: createCase with a clientId that references no existing client answers
\* NotFound and creates no case: every case record that is stored belongs to a
\* client that exists, and a createCase that returned a case named such a client.
C19_CaseRequiresClient ==
    [][/\ \A c \in CaseRecords' \ CaseRecords : ClientExists(c.client)
       /\ (res'.op = "createCase" /\ ~ClientExists(res'.id)) => res'.out = "ClientNotFound"]_vars

\* C20: the list getCaseEvents returns for a case holds the events of the log
\* that belong to that case and no other, each once, in non-increasing order of
\* occurrence time.
C20_ListIsTheLogOfTheCase ==
    res.op = "getCaseEvents"
        => /\ \A i \in DOMAIN res.list :
                 \E e \in Log : e.id = res.list[i].id /\ e.at = res.list[i].at /\ e.case = res.kid
           /\ \A e \in Log :
                 e.case = res.kid => Cardinality({i \in DOMAIN res.list : res.list[i].id = e.id}) = 1
           /\ \A i, j \in DOMAIN res.list : i < j => res.list[i].at >= res.list[j].at

\* the page the route returns for page number k and page size limit from list
PageOf(list, k, limit) == slice(list, (k - 1) * limit, (k - 1) * limit + limit)

\* the concatenation of the pages 1 .. k
RECURSIVE PagesUpTo(_, _, _)
PagesUpTo(list, k, limit) ==
    IF k = 0 THEN <<>> ELSE PagesUpTo(list, k - 1, limit) \o PageOf(list, k, limit)

\* C21: for a fixed event log and page size, the pages 1, 2, ... are consecutive
\* slices of the most-recent-first list of the case: the page returned follows
\* the pages before it, the pages together are the whole list, and hasMore is
\* true exactly when events remain beyond the returned page; for every page
\* and limit a caller can pass.
C21_PagesPartitionTheList ==
    (res.op = "getClientCaseEvents" /\ res.out = "ok" /\ res.page >= 1)
        => \E rows \in getCaseEvents(CaseEventsOf(res.kid)) :
              LET whole == [i \in DOMAIN rows |-> [id |-> rows[i].id, at |-> rows[i].occurred_at]]
                  upTo == PagesUpTo(whole, res.page - 1, res.limit) \o res.list
              IN /\ Len(upTo) <= Len(whole)
                 /\ upTo = SubSeq(whole, 1, Len(upTo))
                 /\ res.hasMore <=> (Len(upTo) < Len(whole))
                 /\ PagesUpTo(whole, Len(whole) + 1, res.limit) = whole

\* C22: once a registry entry nationalId -> clientId is written, no later
\* step changes or removes it, and the registry keeps that nationalId under
\* that one client identifier
C22_RegistryEntriesPersist ==
    [][\A r \in registry :
          /\ r \in registry'
          /\ \A s \in registry' : s.national_id = r.national_id => s = r]_vars

\* a later creation with a registered nationalId was refused and the entry is still there
C22_Witness ==
    /\ res.out = "DuplicateNationalId"
    /\ \E r \in registry : r.national_id = res.nat

\* C23: every client identifier createClient allocates lies in the range of
\* generateClientId (1000..9999) and every generated case identifier in the
\* range of generateCaseId (1000000..9999999), after any number of creations
C23_IdentifiersInRange ==
    /\ (res.op = "createClient" /\ res.out = "ok") => res.id \in ClientIds
    /\ (res.op = "createCase" /\ res.out = "ok" /\ res.generated) => res.kid \in CaseIds

\* C24: the stored status of a case is the event type selected by the
\* createCaseEvent call whose re-projection ran last: when that call writes,
\* the case record takes the type it read earlier, whatever the log holds by
\* then.  Two overlapping calls can therefore end in a quiescent state whose
\* stored status is not the projection of the log (the witness).
C24_LastReprojectionWins ==
    [][\A p \in Procs :
          (pc[p] = "sy_write" /\ loc[p].op = "createCaseEvent" /\ Steps(p))
              => \A c \in cases' :
                    (c.case_id = loc[p].skid /\ c.client_id = loc[p].scid)
                        => c.last_case_status = loc[p].styp]_vars

\* both calls have completed; the case stores the event type of the call that
\* completed last although the other call's event has the later occurrence
\* time, and the stored status is not what the log implies
C24_Witness ==
    /\ \A p \in Procs : pc[p] = "idle"
    /\ res.op = "createCaseEvent" /\ res.out = "ok"
    /\ \E mine \in CaseEventsOf(res.kid), other \in CaseEventsOf(res.kid) :
          /\ mine.id = res.id /\ mine.event_type = res.typ
          /\ other.id # mine.id
          /\ other.occurred_at > mine.occurred_at
    /\ \A c \in getCase(res.kid) :
          /\ c.last_case_status = res.typ
          /\ c.last_case_status \notin Implied(res.kid)

\* C25: when the re-projection fails inside createCaseEvent, updateCaseEvent
\* or deleteCaseEvent, the mutation of the event log is kept and the call
\* returns its normal result; and whenever such a call returns with the stored
\* status of its case not implied by the log, a warning naming the case was
\* logged.
C25_StaleStatusIsLogged ==
    /\ (res.op \in EventMutations /\ res.kid # NoId /\ res.kid \in res.errors)
          => /\ res.out = "ok"
             /\ res.op \in {"createCaseEvent", "updateCaseEvent"} => InLog(res.id)
             /\ res.op = "deleteCaseEvent" => ~InLog(res.id)
    /\ (res.op \in EventMutations /\ res.out = "ok" /\ res.kid # NoId
          /\ \E c \in getCase(res.kid) : c.last_case_status \notin Implied(res.kid))
          => res.kid \in res.errors

\* a createCaseEvent whose re-projection failed: the event is stored, the call
\* returned it, the case keeps a status the log does not imply, the warning names it
C25_Witness ==
    /\ res.op = "createCaseEvent" /\ res.out = "ok"
    /\ InLog(res.id)
    /\ res.kid \in res.errors
    /\ \E c \in getCase(res.kid) : c.last_case_status \notin Implied(res.kid)

\* C26: for a log in which several events share the greatest occurrence time,
\* every re-projection selects the same event: a re-projection of a case whose
\* log has such a tie and has not been mutated since the last re-projection
\* writes the status that one wrote.
C26_TieBreakIsFixed ==
    [][\A p \in Procs :
         (/\ pc[p] = "sy_write" /\ Steps(p)
          /\ Cardinality(Latest(CaseEventsOf(loc[p].skid))) >= 2
          /\ projected[loc[p].skid] # "")
         => projected'[loc[p].skid] = projected[loc[p].skid]]_vars

\* the status stored for case k by the storage in use
StoredStatuses(k) ==
    IF storage = "MemStorage"
    THEN {c.lastCaseStatus : c \in MemStorage_getCase(mem, k)}
    ELSE {c.last_case_status : c \in getCase(k)}

\* C27: when createCaseEvent completes on an existing case with no other
\* operation in flight, the stored status of the case is the event type of the
\* event just created, also when an earlier event of the case has the same
\* occurrence time.
C27_AppendSetsStatus ==
    (/\ res.op = "createCaseEvent" /\ res.out = "ok"
     /\ \A p \in Procs : pc[p] = "idle")
        => \A st \in StoredStatuses(res.kid) : st = res.typ

\* C28: MemStorage.createCase never replaces a case record: every case stored
\* before the call is stored after it under its identifier with its owning
\* client, and each call that returns a case adds one record.
C28_CreateCaseKeepsCases ==
    [][(storage = "MemStorage" /\ res'.op = "createCase" /\ res'.out = "ok")
          => /\ \A c \in mem.cases :
                  \E d \in mem'.cases : d.caseId = c.caseId /\ d.clientId = c.clientId
             /\ Cardinality(mem'.cases) = Cardinality(mem.cases) + 1]_vars

\* the case a step of an event-log mutation of handler p acts on
TargetCase(p) ==
    CASE pc[p] = "ce_insert" -> loc[p].kid
      [] pc[p] \in {"ue_update", "de_delete"} -> EventCase(loc[p].eid)
      [] OTHER -> loc[p].skid

\* C29: createCaseEvent, updateCaseEvent and deleteCaseEvent acting on an event
\* of case C leave the event log and the stored status of every other case as
\* they are, and the re-projection they trigger writes the one case record
\* that C denotes.
C29_OnlyTheTargetCase ==
    [][\A p \in Procs :
         (loc[p].op \in EventMutations /\ Steps(p))
         => /\ \A k \in CaseIds \ {TargetCase(p)} :
                  /\ {e \in events' : e.case_id = k} = CaseEventsOf(k)
                  /\ {c \in cases' : c.case_id = k} = getCase(k)
            /\ pc[p] = "sy_write"
                  => /\ Cardinality(getCase(loc[p].skid)) = 1
                     /\ \A c \in cases' : c.case_id = loc[p].skid
                           => c.last_case_status = loc[p].styp]_vars

\* C30: the two read paths agree: the status the computed listing reports for
\* a case (getAllLegalCases, MemStorage.getAllCases) is the status stored for
\* that case, as getCase returns it, whenever no call is in flight.
C30_ListingAgreesWithStored ==
    (/\ res.op \in {"getAllLegalCases", "getAllCases"} /\ res.out = "ok"
     /\ \A p \in Procs : pc[p] = "idle")
        => res.typ \in StoredStatuses(res.kid)

====
